---- MODULE Spec2Model ----
(***************************************************************************)
(* Model of lti/outcome_request.py: the OutcomeRequest message, its       *)
(* request-XML encoder (generate_request_xml), its decoder (process_xml)  *)
(* and the outbound exchange (post_outcome_request and its three entry    *)
(* points).                                                               *)
(*                                                                         *)
(* Python values are records [kind, text, items]; an XML document is a    *)
(* tree of elements [tag, text, kids], all in the one namespace of the    *)
(* envelope. Texts are opaque tokens. The request headers and the OAuth1  *)
(* signature are handed to the transport unchanged and are left out.      *)
(***************************************************************************)
EXTENDS Naturals, Sequences, FiniteSets, TLC

VARIABLES msg, call, raised, returned, posted, wire, rx, calls

vars == <<msg, call, raised, returned, posted, wire, rx, calls>>

-----------------------------------------------------------------------------
(* Bounds of the model. *)

\* Calls made on one message instance after its construction.
MaxCalls == 2

-----------------------------------------------------------------------------
(* Python values. *)

NoItems == [k \in {} |-> 0]

None == [kind |-> "None", text |-> "", items |-> NoItems]

Str(s) == [kind |-> "str", text |-> s, items |-> NoItems]

True == [kind |-> "bool", text |-> "True", items |-> NoItems]

False == [kind |-> "bool", text |-> "False", items |-> NoItems]

Bool(b) == IF b THEN True ELSE False

\* A dict: items maps each key to its value.
Dict(f) == [kind |-> "dict", text |-> "", items |-> f]

\* A data element of an objectified tree (a leaf): it carries its text.
StringElement(e) == [kind |-> "StringElement", text |-> e.text, items |-> NoItems]

\* An element of an objectified tree that has children: it carries its tag.
ObjectifiedElement(e) == [kind |-> "ObjectifiedElement", text |-> e.tag, items |-> NoItems]

\* The Python object lxml.objectify hands out for element e.
ElementObject(e) == IF Len(e.kids) > 0 THEN ObjectifiedElement(e) ELSE StringElement(e)

\* bool(v): None, False, '' and the empty dict are falsy; a data element is
\* truthy iff its text is non-empty; a tree element is truthy.
Truthy(v) ==
    CASE v.kind = "None" -> FALSE
      [] v.kind = "bool" -> v.text = "True"
      [] v.kind = "str" -> v.text # ""
      [] v.kind = "dict" -> DOMAIN v.items # {}
      [] v.kind = "StringElement" -> v.text # ""
      [] OTHER -> TRUE

-----------------------------------------------------------------------------
(* XML trees. *)

\* An element with a tag, its text ("" for none) and its children in order.
Element(tag, text, kids) == [tag |-> tag, text |-> text, kids |-> kids]

NoXml == Element("", "", <<>>)

\* el.text = v: None and '' both serialize to an element without text.
TextOf(v) == IF v.kind = "None" THEN "" ELSE v.text

\* str(v) for None and for a str.
PyStr(v) == IF v.kind = "None" THEN "None" ELSE v.text

HasChild(e, tag) == \E i \in 1..Len(e.kids) : e.kids[i].tag = tag

\* The first child of e with the tag.
Child(e, tag) == Head(SelectSeq(e.kids, LAMBDA k : k.tag = tag))

\* The elements found by following the chain of child tags path from e, first
\* matching child at each step: one element, or none when a step is absent.
RECURSIVE Find(_, _)
Find(e, path) ==
    IF path = <<>> THEN <<e>>
    ELSE IF ~HasChild(e, Head(path)) THEN <<>>
    ELSE Find(Child(e, Head(path)), Tail(path))

\* Whether the chain of child tags path exists below e.
HasPath(e, path) == Find(e, path) # <<>>

\* The element at the end of an existing chain of child tags.
Path(e, path) == Head(Find(e, path))

-----------------------------------------------------------------------------
(* The message. *)

REPLACE_REQUEST == "replaceResult"

DELETE_REQUEST == "deleteResult"

READ_REQUEST == "readResult"

VALID_ATTRIBUTES ==
    {"operation", "score", "result_data", "outcome_response",
     "message_identifier", "lis_outcome_service_url", "lis_result_sourcedid",
     "consumer_key", "consumer_secret", "post_request",
     "needs_additional_review"}

\* Exceptions: "" stands for a call that returned normally.
NoError == ""

InvalidLTIConfigError == "InvalidLTIConfigError"

\* What a call yields: the exception it raised (or NoError), the message as
\* the call left it, the value it returned, whether requests.post was called
\* and the body handed to it.
Outcome(err, m, v) ==
    [raised |-> err, msg |-> m, value |-> v, posted |-> FALSE, xml |-> NoXml]

\* The same for a call that reached requests.post with body xml.
Posted(err, m, v, xml) ==
    [raised |-> err, msg |-> m, value |-> v, posted |-> TRUE, xml |-> xml]

\* The placeholder for "no message object exists".
NoMsg == [a \in VALID_ATTRIBUTES |-> Str("<no object>")]

\* OutcomeRequest(opts): every accessor starts as None, then each option is
\* stored; an option outside VALID_ATTRIBUTES raises and no object results.
OutcomeRequest(opts) ==
    IF DOMAIN opts \subseteq VALID_ATTRIBUTES
    THEN Outcome(NoError,
                 [a \in VALID_ATTRIBUTES |->
                     IF a \in DOMAIN opts THEN opts[a] ELSE None],
                 None)
    ELSE Outcome(InvalidLTIConfigError, NoMsg, None)

is_replace_request(m) == m.operation = Str(REPLACE_REQUEST)

is_delete_request(m) == m.operation = Str(DELETE_REQUEST)

is_read_request(m) == m.operation = Str(READ_REQUEST)

\* has_required_attributes without its check of the operation.
has_required_attributes_no_operation(m) ==
    /\ m.consumer_key # None
    /\ m.consumer_secret # None
    /\ m.lis_outcome_service_url # None
    /\ m.lis_result_sourcedid # None

has_required_attributes(m) ==
    /\ m.consumer_key # None
    /\ m.consumer_secret # None
    /\ m.lis_outcome_service_url # None
    /\ m.lis_result_sourcedid # None
    /\ m.operation # None

-----------------------------------------------------------------------------
(* Request XML encoding. *)

\* An lxml text setter takes None or a str; any other object is a TypeError.
IsText(v) == v.kind \in {"None", "str"}

\* The one child emitted under resultData: text, else url, else ltiLaunchUrl.
ResultDataKey(rd) ==
    IF "text" \in DOMAIN rd.items THEN "text"
    ELSE IF "url" \in DOMAIN rd.items THEN "url"
    ELSE IF "ltiLaunchUrl" \in DOMAIN rd.items THEN "ltiLaunchUrl"
    ELSE ""

ResultDataElement(rd) ==
    Element("resultData", "",
            IF ResultDataKey(rd) = "" THEN <<>>
            ELSE <<Element(ResultDataKey(rd), TextOf(rd.items[ResultDataKey(rd)]), <<>>)>>)

\* The exception generate_request_xml raises for message m, if any.
GenerateError(m) ==
    IF ~IsText(m.message_identifier) \/ ~IsText(m.lis_result_sourcedid)
    THEN "TypeError"
    ELSE IF Truthy(m.result_data) /\ m.score = None
    THEN "UnboundLocalError"
    ELSE IF /\ Truthy(m.result_data)
            /\ ResultDataKey(m.result_data) # ""
            /\ ~IsText(m.result_data.items[ResultDataKey(m.result_data)])
    THEN "TypeError"
    ELSE NoError

\* The envelope generate_request_xml builds when it raises nothing.
RequestXml(m) ==
    LET header ==
            Element("imsx_POXHeader", "",
                <<Element("imsx_POXRequestHeaderInfo", "",
                    <<Element("imsx_version", "V1.0", <<>>),
                      Element("imsx_messageIdentifier",
                              TextOf(m.message_identifier), <<>>)>>)>>)
        guid ==
            Element("sourcedGUID", "",
                <<Element("sourcedId", TextOf(m.lis_result_sourcedid), <<>>)>>)
        result_score ==
            Element("resultScore", "",
                <<Element("language", "en", <<>>),
                  Element("textString", PyStr(m.score), <<>>)>>)
        result ==
            Element("result", "",
                <<result_score>> \o
                (IF Truthy(m.result_data)
                 THEN <<ResultDataElement(m.result_data)>> ELSE <<>>))
        record ==
            Element("resultRecord", "",
                <<guid>> \o (IF m.score # None THEN <<result>> ELSE <<>>))
        request ==
            Element(PyStr(m.operation) \o "Request", "",
                <<record>> \o
                (IF Truthy(m.needs_additional_review)
                 THEN <<Element("submissionDetails", "",
                            <<Element("needsAdditionalReview", "", <<>>)>>)>>
                 ELSE <<>>))
    IN  Element("imsx_POXEnvelopeRequest", "",
            <<header, Element("imsx_POXBody", "", <<request>>)>>)

generate_request_xml(m) ==
    IF GenerateError(m) # NoError
    THEN [raised |-> GenerateError(m), xml |-> NoXml]
    ELSE [raised |-> NoError, xml |-> RequestXml(m)]

-----------------------------------------------------------------------------
(* Request XML decoding. *)

\* objectify.fromstring accepts a document iff it is well-formed XML; the
\* empty body NoXml is not.
WellFormed(xml) == xml.tag # ""

MessageIdentifierPath ==
    <<"imsx_POXHeader", "imsx_POXRequestHeaderInfo", "imsx_messageIdentifier">>

SourcedIdPath == <<"resultRecord", "sourcedGUID", "sourcedId">>

\* resultData.find(key) as a condition: the child exists and is truthy.
FindsTruthy(resultData, key) ==
    HasChild(resultData, key) /\ Truthy(ElementObject(Child(resultData, key)))

\* The assignments of the resultData block of the replace branch; result is
\* the replaceResultRequest element and resultData the element found.
DecodeResultData(m, result, resultData) ==
    IF FindsTruthy(resultData, "text")
    THEN [m EXCEPT !.result_data = Dict([k \in {"text"} |-> ElementObject(result)])]
    ELSE IF FindsTruthy(resultData, "url")
    THEN [m EXCEPT !.result_data = Dict([k \in {"url"} |-> ElementObject(result)])]
    ELSE IF FindsTruthy(resultData, "ltiLaunchUrl")
    THEN [m EXCEPT !.result_data =
             Dict([k \in {"ltiLaunchUrl"} |->
                      ElementObject(Child(resultData, "ltiLaunchUrl"))])]
    ELSE m

\* The end of the first try block: result is the replaceResultRequest
\* element and m the message with operation, sourcedid and score assigned.
\* len(None) raises TypeError when no resultData element is found, and the
\* review flag is then never assigned.
DecodeResultRecord(m, result) ==
    IF ~HasPath(result, <<"resultRecord", "result", "resultData">>) THEN m
    ELSE [DecodeResultData(m, result,
              Path(result, <<"resultRecord", "result", "resultData">>))
          EXCEPT !.needs_additional_review =
              Bool(HasPath(result, <<"submissionDetails", "needsAdditionalReview">>))]

\* DecodeReplace reading the score from resultScore/language instead of
\* resultScore/textString.
DecodeReplace_score_from_language(m, result) ==
    IF ~HasPath(result, SourcedIdPath) THEN m
    ELSE IF ~HasPath(result, <<"resultRecord", "result", "resultScore", "language">>)
    THEN [m EXCEPT !.lis_result_sourcedid = ElementObject(Path(result, SourcedIdPath))]
    ELSE DecodeResultRecord(
             [m EXCEPT !.lis_result_sourcedid = ElementObject(Path(result, SourcedIdPath)),
                       !.score = Str(Path(result, <<"resultRecord", "result",
                                                    "resultScore", "language">>).text)],
             result)

\* The first try block from its second assignment on: each lookup that
\* raises ends the block with the assignments made so far.
DecodeReplace(m, result) ==
    IF ~HasPath(result, SourcedIdPath) THEN m
    ELSE IF ~HasPath(result, <<"resultRecord", "result", "resultScore", "textString">>)
    THEN [m EXCEPT !.lis_result_sourcedid = ElementObject(Path(result, SourcedIdPath))]
    ELSE DecodeResultRecord(
             [m EXCEPT !.lis_result_sourcedid = ElementObject(Path(result, SourcedIdPath)),
                       !.score = Str(Path(result, <<"resultRecord", "result",
                                                    "resultScore", "textString">>).text)],
             result)

\* The first try block of process_xml; the bare except swallows whatever a
\* lookup raises.
ReplaceBranch(m, root) ==
    IF ~HasPath(root, <<"imsx_POXBody", "replaceResultRequest">>) THEN m
    ELSE DecodeReplace([m EXCEPT !.operation = Str(REPLACE_REQUEST)],
                       Path(root, <<"imsx_POXBody", "replaceResultRequest">>))

\* The second and third try blocks, for tag deleteResultRequest or
\* readResultRequest and operation op.
OtherBranch(m, root, tag, op) ==
    IF ~HasPath(root, <<"imsx_POXBody", tag>>) THEN m
    ELSE IF ~HasPath(root, <<"imsx_POXBody", tag>> \o SourcedIdPath)
    THEN [m EXCEPT !.operation = Str(op)]
    ELSE [m EXCEPT !.operation = Str(op),
                   !.lis_result_sourcedid =
                       ElementObject(Path(root, <<"imsx_POXBody", tag>> \o SourcedIdPath))]

process_xml(m, xml) ==
    IF ~WellFormed(xml) THEN Outcome("XMLSyntaxError", m, None)
    ELSE IF ~HasPath(xml, MessageIdentifierPath) THEN Outcome("AttributeError", m, None)
    ELSE Outcome(NoError,
             OtherBranch(
                 OtherBranch(
                     ReplaceBranch(
                         [m EXCEPT !.message_identifier =
                              Str(Path(xml, MessageIdentifierPath).text)],
                         xml),
                     xml, "deleteResultRequest", DELETE_REQUEST),
                 xml, "readResultRequest", READ_REQUEST),
             None)

\* The inbound request object handed to from_post_request.
HttpRequest == [kind |-> "HttpRequest", text |-> "", items |-> NoItems]

\* from_post_request: a message built without options, then process_xml of
\* the request body; an exception of process_xml leaves the caller no message.
from_post_request(body) ==
    LET request == [OutcomeRequest(NoItems).msg EXCEPT !.post_request = HttpRequest]
        parsed == process_xml(request, body)
    IN  IF parsed.raised # NoError THEN Outcome(parsed.raised, NoMsg, None)
        ELSE Outcome(NoError, parsed.msg, None)

-----------------------------------------------------------------------------
(* The response side: the transport's answer and OutcomeResponse. *)

\* What requests.post does: it raises (a connection error) or it returns the
\* response, whatever its status.
HttpResponse(failed, status, content) ==
    [failed |-> failed, status_code |-> status, content |-> content]

StatusInfoPath ==
    <<"imsx_POXHeader", "imsx_POXResponseHeaderInfo", "imsx_statusInfo">>

\* A response envelope carrying a codeMajor and a description.
ResponseXml(code_major, description) ==
    Element("imsx_POXEnvelopeResponse", "",
        <<Element("imsx_POXHeader", "",
            <<Element("imsx_POXResponseHeaderInfo", "",
                <<Element("imsx_version", "V1.0", <<>>),
                  Element("imsx_statusInfo", "",
                      <<Element("imsx_codeMajor", code_major, <<>>),
                        Element("imsx_description", description, <<>>)>>)>>)>>),
          Element("imsx_POXBody", "", <<>>)>>)

\* The text at a path below e as a str, or None when the path is absent.
OptionalText(e, path) == IF HasPath(e, path) THEN Str(Path(e, path).text) ELSE None

\* OutcomeResponse.from_post_response: the verdict for a response, with the
\* raw status and the decoded status info; only a document that cannot be
\* parsed is an error.
from_post_response(resp) ==
    IF ~WellFormed(resp.content) THEN [raised |-> "ProtocolDecodeError", value |-> None]
    ELSE [raised |-> NoError,
          value |->
            [kind |-> "OutcomeResponse", text |-> "",
             items |->
               [k \in {"response_code", "code_major", "description"} |->
                  CASE k = "response_code" -> Str(resp.status_code)
                    [] k = "code_major" ->
                         OptionalText(resp.content, StatusInfoPath \o <<"imsx_codeMajor">>)
                    [] OTHER ->
                         OptionalText(resp.content, StatusInfoPath \o <<"imsx_description">>)]]]

\* OutcomeResponse.is_success.
is_success(response) == response.items["code_major"] = Str("success")

\* was_outcome_post_successful without its call of is_success.
was_outcome_post_successful_any_verdict(m) ==
    IF ~Truthy(m.outcome_response) THEN m.outcome_response ELSE True

\* self.outcome_response and self.outcome_response.is_success()
was_outcome_post_successful(m) ==
    IF ~Truthy(m.outcome_response) THEN m.outcome_response
    ELSE Bool(is_success(m.outcome_response))

-----------------------------------------------------------------------------
(* The outbound exchange. *)

\* post_outcome_request with resp the transport's answer, should the call
\* get as far as requests.post.
post_outcome_request(m, resp) ==
    IF ~has_required_attributes(m) THEN Outcome(InvalidLTIConfigError, m, None)
    ELSE
      LET data == generate_request_xml(m) IN
      IF data.raised # NoError THEN Outcome(data.raised, m, None)
      ELSE IF resp.failed THEN Posted("ConnectionError", m, None, data.xml)
      ELSE
        LET outcome_resp == from_post_response(resp) IN
        IF outcome_resp.raised # NoError
        THEN Posted(outcome_resp.raised, m, None, data.xml)
        ELSE Posted(NoError,
                    [m EXCEPT !.outcome_response = outcome_resp.value],
                    outcome_resp.value, data.xml)

post_replace_result(m, score, result_data, needs_additional_review, resp) ==
    LET m1 == [m EXCEPT !.operation = Str(REPLACE_REQUEST),
                        !.score = score,
                        !.result_data = result_data,
                        !.needs_additional_review = needs_additional_review]
    IN
    IF result_data # None
    THEN IF Cardinality(DOMAIN result_data.items) > 1
         THEN Outcome(InvalidLTIConfigError, m1, None)
         ELSE IF /\ "text" \notin DOMAIN result_data.items
                 /\ "url" \notin DOMAIN result_data.items
                 /\ "ltiLaunchUrl" \notin DOMAIN result_data.items
         THEN Outcome(InvalidLTIConfigError, m1, None)
         ELSE post_outcome_request(m1, resp)
    ELSE post_outcome_request(m1, resp)

post_delete_result(m, resp) ==
    post_outcome_request([m EXCEPT !.operation = Str(DELETE_REQUEST)], resp)

post_read_result(m, resp) ==
    post_outcome_request([m EXCEPT !.operation = Str(READ_REQUEST)], resp)

-----------------------------------------------------------------------------
(* The inputs. *)

Operations == {None, Str(REPLACE_REQUEST), Str(DELETE_REQUEST), Str(READ_REQUEST)}

Scores == {None, Str("0.92")}

\* No dict, the empty dict, each single valid key, two keys, an unknown key.
ResultDatas ==
    {None, Dict(NoItems)}
    \cup {Dict([k \in {key} |-> Str("a")]) : key \in {"text", "url", "ltiLaunchUrl", "comment"}}
    \cup {Dict([k \in {"text", "url"} |-> IF k = "text" THEN Str("a") ELSE Str("b")])}

ReviewFlags == {False, True}

\* The attributes a POST requires besides the operation: all given, or one
\* of them left out.
RequiredOptions ==
    LET all == [consumer_key |-> Str("key"), consumer_secret |-> Str("secret"),
                lis_outcome_service_url |-> Str("https://tc/outcomes"),
                lis_result_sourcedid |-> Str("student:42")]
    IN  {all} \cup {[all EXCEPT ![a] = None] : a \in DOMAIN all}

\* The constructor's options: a value for each option given (None is what an
\* option left out leaves), or an option that is no valid attribute.
Options ==
    {[a \in DOMAIN o \cup DOMAIN c |-> IF a \in DOMAIN o THEN o[a] ELSE c[a]] :
        o \in [operation : Operations,
               score : Scores,
               result_data : ResultDatas,
               needs_additional_review : {None} \cup ReviewFlags,
               message_identifier : {None, Str("m1")}],
        c \in RequiredOptions}
    \cup {[k \in {"colour"} |-> Str("red")]}

\* What the transport may answer.
Responses ==
    {HttpResponse(FALSE, "200", ResponseXml("success", "")),
     HttpResponse(FALSE, "200", ResponseXml("failure", "invalid sourcedid")),
     HttpResponse(FALSE, "500", ResponseXml("failure", "server error")),
     HttpResponse(FALSE, "500", NoXml)}

\* The record parts of inbound request elements: none, the sourcedGUID alone,
\* with a scored result, and with each resultData child.
Records ==
    LET guid == Element("sourcedGUID", "", <<Element("sourcedId", "student:42", <<>>)>>)
        result_score ==
            Element("resultScore", "",
                <<Element("language", "en", <<>>), Element("textString", "0.92", <<>>)>>)
        datas == {<<>>, <<Element("resultData", "", <<>>)>>}
                 \cup {<<Element("resultData", "", <<Element(key, "a", <<>>)>>)>> :
                         key \in {"text", "url", "ltiLaunchUrl"}}
    IN  {<<>>, <<Element("resultRecord", "", <<guid>>)>>}
        \cup {<<Element("resultRecord", "",
                  <<guid, Element("result", "", <<result_score>> \o d)>>)>> : d \in datas}

Submissions ==
    {<<>>,
     <<Element("submissionDetails", "", <<Element("needsAdditionalReview", "", <<>>)>>)>>}

ReplaceRequests ==
    {Element("replaceResultRequest", "", r \o sub) : r \in Records, sub \in Submissions}

\* A deleteResultRequest or readResultRequest: empty, or with its sourcedGUID.
OtherRequests(tag) ==
    {Element(tag, "", <<>>),
     Element(tag, "",
         <<Element("resultRecord", "",
             <<Element("sourcedGUID", "", <<Element("sourcedId", "student:7", <<>>)>>)>>)>>)}

\* Bodies with no operation element, with one, and with a replace and a delete.
Bodies ==
    {<<>>}
    \cup {<<r>> : r \in ReplaceRequests
                     \cup OtherRequests("deleteResultRequest")
                     \cup OtherRequests("readResultRequest")}
    \cup {<<r, d>> : r \in {Element("replaceResultRequest", "", rec) : rec \in Records},
                     d \in {Element("deleteResultRequest", "", <<>>)}}

\* Headers: a response's header, a request's header.
Headers ==
    {<<Element("imsx_POXHeader", "",
         <<Element("imsx_POXResponseHeaderInfo", "",
             <<Element("imsx_version", "V1.0", <<>>)>>)>>)>>,
     <<Element("imsx_POXHeader", "",
         <<Element("imsx_POXRequestHeaderInfo", "",
             <<Element("imsx_version", "V1.0", <<>>),
               Element("imsx_messageIdentifier", "m2", <<>>)>>)>>)>>}

Envelope(header, body) ==
    Element("imsx_POXEnvelopeRequest", "", header \o <<Element("imsx_POXBody", "", body)>>)

\* The inbound documents: well-formed envelopes, and one that does not parse.
Documents == {NoXml} \cup {Envelope(h, b) : h \in Headers, b \in Bodies}

\* The documents a message in use is handed: the ones above whose operation
\* elements are complete (a replace with its text resultData and review
\* element, alone or before a delete; a delete or a read with its sourcedGUID),
\* the envelope with an empty body, and the one that does not parse.
CompleteBodies ==
    {b \in Bodies :
        \A i \in 1..Len(b) :
            IF b[i].tag = "replaceResultRequest"
            THEN /\ HasPath(b[i], <<"resultRecord", "result", "resultData", "text">>)
                 /\ Len(b) = 1 => HasChild(b[i], "submissionDetails")
            ELSE HasChild(b[i], "resultRecord") \/ Len(b) = 2}

UpdateDocuments == {NoXml} \cup {Envelope(h, b) : h \in Headers, b \in CompleteBodies}

-----------------------------------------------------------------------------
(* The state machine. *)

\* The state after OutcomeRequest(opts).
Init ==
    \E opts \in Options :
        /\ msg = OutcomeRequest(opts).msg
        /\ call = "__init__"
        /\ raised = OutcomeRequest(opts).raised
        /\ returned = None
        /\ posted = FALSE
        /\ wire = NoXml
        /\ rx = NoMsg
        /\ calls = 0

\* A call can be made on the message: it was constructed, and the bound on
\* calls is not used up.
Callable == msg # NoMsg /\ calls < MaxCalls

\* The state after a call on the message with outcome o.
After(name, o) ==
    /\ msg' = o.msg
    /\ call' = name
    /\ raised' = o.raised
    /\ returned' = o.value
    /\ posted' = o.posted
    /\ wire' = o.xml
    /\ calls' = calls + 1
    /\ UNCHANGED rx

\* requests.post raising a connection error.
ConnectionFailure == HttpResponse(TRUE, "", NoXml)

\* In each post below o is the outcome under a connection failure; the
\* transport's other answers matter only to a call that gets as far as
\* requests.post.
PostReplaceResult ==
    /\ Callable
    /\ \E score \in Scores, result_data \in ResultDatas,
          needs_additional_review \in ReviewFlags :
          \E o \in {post_replace_result(msg, score, result_data,
                                        needs_additional_review, ConnectionFailure)} :
              \/ After("post_replace_result", o)
              \/ /\ o.posted
                 /\ \E resp \in Responses :
                       \E p \in {post_replace_result(msg, score, result_data,
                                                     needs_additional_review, resp)} :
                           After("post_replace_result", p)

PostDeleteResult ==
    /\ Callable
    /\ \E o \in {post_delete_result(msg, ConnectionFailure)} :
          \/ After("post_delete_result", o)
          \/ /\ o.posted
             /\ \E resp \in Responses :
                   \E p \in {post_delete_result(msg, resp)} : After("post_delete_result", p)

PostReadResult ==
    /\ Callable
    /\ \E o \in {post_read_result(msg, ConnectionFailure)} :
          \/ After("post_read_result", o)
          \/ /\ o.posted
             /\ \E resp \in Responses :
                   \E p \in {post_read_result(msg, resp)} : After("post_read_result", p)

\* post_outcome_request called directly, with no keyword arguments.
PostOutcomeRequest ==
    /\ Callable
    /\ \E o \in {post_outcome_request(msg, ConnectionFailure)} :
          \/ After("post_outcome_request", o)
          \/ /\ o.posted
             /\ \E resp \in Responses :
                   \E p \in {post_outcome_request(msg, resp)} :
                       After("post_outcome_request", p)

ProcessXml ==
    /\ Callable
    /\ \E xml \in UpdateDocuments :
          \E o \in {process_xml(msg, xml)} : After("process_xml", o)

Next ==
    \/ PostReplaceResult
    \/ PostDeleteResult
    \/ PostReadResult
    \/ PostOutcomeRequest
    \/ ProcessXml

Spec == Init /\ [][Next]_vars

-----------------------------------------------------------------------------
(* The codec on its own: a constructed message is encoded, and a Tool      *)
(* Consumer decodes a request body into a message of its own, rx.          *)

GenerateRequestXml ==
    /\ msg # NoMsg
    /\ call = "__init__"
    /\ \E o \in {generate_request_xml(msg)} :
          /\ call' = "generate_request_xml"
          /\ raised' = o.raised
          /\ wire' = o.xml
    /\ UNCHANGED <<msg, returned, posted, rx, calls>>

\* The bodies a Tool Consumer may receive: the request just generated, and
\* the inbound documents.
Receivable ==
    (IF call = "generate_request_xml" /\ raised = NoError THEN {wire} ELSE {})
    \cup Documents

FromPostRequest ==
    /\ call \in {"__init__", "generate_request_xml"}
    /\ \E body \in Receivable :
          \E o \in {from_post_request(body)} :
              /\ call' = "from_post_request"
              /\ raised' = o.raised
              /\ rx' = o.msg
              /\ wire' = body
    /\ UNCHANGED <<msg, returned, posted, calls>>

CodecNext == GenerateRequestXml \/ FromPostRequest

CodecSpec == Init /\ [][CodecNext]_vars

-----------------------------------------------------------------------------
(* Properties. *)

\* The calls that end in post_outcome_request.
PostCalls ==
    {"post_replace_result", "post_delete_result", "post_read_result",
     "post_outcome_request"}

\* One of the five attributes a POST requires is unset.
RequiredUnset(m) ==
    \E a \in {"consumer_key", "consumer_secret", "lis_outcome_service_url",
              "lis_result_sourcedid", "operation"} : m[a] = None

\* C1: whenever one of consumer_key, consumer_secret, lis_outcome_service_url,
\* lis_result_sourcedid, operation is unset, has_required_attributes is false,
\* and a call that ends in post_outcome_request on such a message raises the
\* configuration error, makes no network call, returns no verdict and leaves
\* the stored verdict as it was.
C1_RequiredAttributesGate ==
    [][(msg' # NoMsg /\ RequiredUnset(msg')) =>
          /\ ~has_required_attributes(msg')
          /\ call' \in PostCalls =>
                /\ raised' = InvalidLTIConfigError
                /\ ~posted'
                /\ wire' = NoXml
                /\ returned' = None
                /\ msg'.outcome_response = msg.outcome_response]_vars

\* A post on a message lacking a required attribute has failed.
C1_Witness ==
    /\ call \in PostCalls
    /\ RequiredUnset(msg)
    /\ msg.operation # None
    /\ raised = InvalidLTIConfigError
    /\ ~posted

\* C9: was_outcome_post_successful is true exactly when the message holds a
\* verdict whose code_major is "success"; it is not true while no verdict is
\* held, nor after a first call that failed.
C9_SuccessIffVerdictSuccess ==
    msg # NoMsg =>
      /\ (was_outcome_post_successful(msg) = True) <=>
            /\ msg.outcome_response # None
            /\ msg.outcome_response.items["code_major"] = Str("success")
      /\ msg.outcome_response = None => ~Truthy(was_outcome_post_successful(msg))
      /\ (calls = 1 /\ raised # NoError) => ~Truthy(was_outcome_post_successful(msg))

\* A completed exchange carried a business failure: the verdict is held and
\* the post was not successful.
C9_Witness ==
    /\ call \in PostCalls
    /\ raised = NoError
    /\ posted
    /\ msg.outcome_response = returned
    /\ returned.kind = "OutcomeResponse"
    /\ returned.items["code_major"] = Str("failure")
    /\ was_outcome_post_successful(msg) = False

\* The Tool Consumer has decoded the very XML generate_request_xml produces
\* for the message.
RoundTrip ==
    /\ call = "from_post_request"
    /\ msg # NoMsg
    /\ GenerateError(msg) = NoError
    /\ wire = RequestXml(msg)

ReviewPath == <<"imsx_POXBody", "replaceResultRequest", "submissionDetails", "needsAdditionalReview">>

\* The keys a resultData may hold.
ResultDataKeys == {"text", "url", "ltiLaunchUrl"}

\* A dict with exactly one key, which is one of the three.
SingleKey(rd) ==
    /\ rd.kind = "dict"
    /\ Cardinality(DOMAIN rd.items) = 1
    /\ DOMAIN rd.items \subseteq ResultDataKeys

C3_RoundTripResultData ==
    (RoundTrip /\ is_replace_request(msg) /\ SingleKey(msg.result_data)) =>
        /\ rx.result_data.kind = "dict"
        /\ DOMAIN rx.result_data.items = DOMAIN msg.result_data.items
        /\ \A k \in DOMAIN msg.result_data.items :
              /\ rx.result_data.items[k].kind \in {"str", "StringElement"}
              /\ rx.result_data.items[k].text = msg.result_data.items[k].text

\* C4: for a replaceResult message, a true review flag is encoded as an empty
\* submissionDetails/needsAdditionalReview element and decodes to True; a
\* false or unset flag emits no such element and decodes to a false value.
C4_RoundTripReviewFlag ==
    (RoundTrip /\ is_replace_request(msg)) =>
        IF msg.needs_additional_review = True
        THEN /\ HasPath(wire, ReviewPath)
             /\ Path(wire, ReviewPath) = Element("needsAdditionalReview", "", <<>>)
             /\ rx.needs_additional_review = True
        ELSE /\ ~HasPath(wire, ReviewPath)
             /\ ~Truthy(rx.needs_additional_review)

\* The tags of the operation elements.
OperationTags == {"replaceResultRequest", "deleteResultRequest", "readResultRequest"}

\* C5: from_post_request raises on no well-formed envelope, whichever of its
\* optional parts are absent; when the body has none of the three operation
\* elements the operation stays unset and nothing but the message identifier
\* is taken from the document.
C5_DecodeTolerant ==
    (call = "from_post_request" /\ WellFormed(wire)) =>
        /\ raised = NoError
        /\ (\A tag \in OperationTags : ~HasPath(wire, <<"imsx_POXBody", tag>>)) =>
              /\ rx.operation = None
              /\ rx.lis_result_sourcedid = None
              /\ rx.score = None
              /\ rx.result_data = None

\* C10: for a message with its required attributes, generate_request_xml
\* succeeds, and the body holds exactly one element, named after the
\* operation, with resultRecord/sourcedGUID/sourcedId; the result with its
\* resultScore/textString is there iff the score is set, a resultData with the
\* one populated key iff a single-key result_data is set, and the review
\* element iff the flag is true.
C10_GeneratedStructure ==
    (/\ call = "generate_request_xml"
     /\ msg # NoMsg
     /\ has_required_attributes(msg)
     /\ (msg.result_data = None \/ SingleKey(msg.result_data))) =>
        /\ raised = NoError
        /\ LET body == Path(wire, <<"imsx_POXBody">>)
               request == Head(body.kids)
           IN  /\ Len(body.kids) = 1
               /\ request.tag = msg.operation.text \o "Request"
               /\ HasPath(request, SourcedIdPath)
               /\ Path(request, SourcedIdPath).text = msg.lis_result_sourcedid.text
               /\ HasPath(request, <<"resultRecord", "result", "resultScore", "textString">>)
                     <=> msg.score # None
               /\ HasPath(request, <<"resultRecord", "result", "resultData">>)
                     <=> msg.result_data # None
               /\ msg.result_data # None =>
                     LET data == Path(request, <<"resultRecord", "result", "resultData">>)
                     IN  /\ Len(data.kids) = 1
                         /\ {Head(data.kids).tag} = DOMAIN msg.result_data.items
               /\ HasPath(request, <<"submissionDetails", "needsAdditionalReview">>)
                     <=> msg.needs_additional_review = True

\* A dict with more than one key, or with a key that is none of the three.
InvalidResultData(rd) ==
    /\ rd.kind = "dict"
    /\ \/ Cardinality(DOMAIN rd.items) > 1
       \/ ~(DOMAIN rd.items \subseteq ResultDataKeys)

\* C6: a result_data with more than one key, or with a key outside text, url,
\* ltiLaunchUrl, is rejected with the configuration error by the constructor
\* and by post_replace_result alike, and no request is sent for a message that
\* holds one; an empty result_data is no error of post_replace_result.
C6_InvalidResultDataRejected ==
    msg # NoMsg =>
      /\ (call \in {"__init__", "post_replace_result"} /\ InvalidResultData(msg.result_data))
            => raised = InvalidLTIConfigError
      /\ InvalidResultData(msg.result_data) => ~posted
      /\ (/\ call = "post_replace_result"
          /\ msg.result_data = Dict(NoItems)
          /\ has_required_attributes(msg)) => raised # InvalidLTIConfigError

\* C7: a message holds a non-empty result_data only while its operation is
\* replaceResult, and no deleteResult or readResult request sent carries a
\* resultData element.
C7_ResultDataOnlyWithReplace ==
    msg # NoMsg =>
      /\ Truthy(msg.result_data) => is_replace_request(msg)
      /\ posted =>
            \A tag \in {"deleteResultRequest", "readResultRequest"} :
               ~HasPath(wire, <<"imsx_POXBody", tag, "resultRecord", "result", "resultData">>)

\* C8: a post that raised returned no verdict; a verdict is held only for an
\* exchange with a 2xx status; and a call that returned normally returned the
\* verdict it stored.
C8_TransportFailureNoVerdict ==
    msg # NoMsg =>
      /\ (call \in PostCalls /\ raised # NoError) => returned = None
      /\ msg.outcome_response # None =>
            msg.outcome_response.items["response_code"] = Str("200")
      /\ (call \in PostCalls /\ raised = NoError) =>
            returned # None /\ returned = msg.outcome_response

====
